---- MODULE Spec2Model ----
(***************************************************************************)
(* Genesis Luminal observability core: the trace-context registry          *)
(* (backend/src/observability/tracing.ts), the Express interceptors        *)
(* (middleware/observability.ts, middleware/simpleObservability.ts) and    *)
(* the status reporter, and the frontend's BackendClient                   *)
(* (frontend/src/services/BackendClient.ts), modelled as one state machine.*)
(***************************************************************************)
EXTENDS Integers, Sequences, FiniteSets, TLC

\* ------------------------------------------------------------------ bounds
MaxRequests == 2   \* HTTP requests the interceptors handle
MaxCalls == 1      \* withTrace invocations
MaxDirect == 2     \* direct createTraceContext calls by other callers
MaxTime == 1       \* Date.now() advances from 0 up to this
MaxClientCalls == 2  \* BackendClient method calls
MaxClientTicks == 2  \* instants the browser clock moves through

\* ------------------------------------------------------------ JS values
\* A missing header, a missing option and a missing property all read as
\* JavaScript's undefined.
Undefined == "<undefined>"

\* JavaScript's || on strings: the first operand unless it is falsy
\* (undefined or the empty string).
Truthy(s) == s # Undefined /\ s # ""
Or(a, b) == IF Truthy(a) THEN a ELSE b

\* Values an async operation can resolve with or throw: Error objects,
\* primitives, plain objects, null and undefined.
JsError(msg) == [type |-> "Error", text |-> msg]
JsTypeError(msg) == [type |-> "TypeError", text |-> msg]
JsString(s) == [type |-> "string", text |-> s]
JsObject(s) == [type |-> "object", text |-> s]
JsNull == [type |-> "null", text |-> ""]
JsUndefined == [type |-> "undefined", text |-> ""]

Nullish(v) == v.type \in {"null", "undefined"}
ValueTruthy(v) == ~Nullish(v) /\ ~(v.type = "string" /\ v.text = "")
\* typeof v
TypeOf(v) ==
  CASE v.type = "string" -> "string"
    [] v.type = "undefined" -> "undefined"
    [] OTHER -> "object"
\* v.message, v.stack and v.constructor.name for a non-nullish v
MessageOf(v) == IF v.type \in {"Error", "TypeError"} THEN v.text ELSE Undefined
StackOf(v) == IF v.type \in {"Error", "TypeError"} THEN "stack" ELSE Undefined
ConstructorNameOf(v) ==
  CASE v.type = "Error" -> "Error"
    [] v.type = "TypeError" -> "TypeError"
    [] v.type = "string" -> "String"
    [] OTHER -> "Object"
\* What the engine throws on reading a property of null or undefined.
PropertyReadError(v) == JsTypeError("Cannot read properties of " \o v.type)

ThrownValues == {JsError("boom"), JsString("oops"), JsNull}
ResultValues == {JsUndefined, JsObject("analysis")}

\* ------------------------------------------------------------ identifiers
ClientIds == {"abc-123", "xyz-9"}
UuidTable == <<"uuid-1", "uuid-2", "uuid-3", "uuid-4", "uuid-5", "uuid-6">>
ReqIdTable == <<"req_1", "req_2", "req_3", "req_4", "req_5", "req_6", "req_7",
                "req_8", "req_9", "req_10", "req_11", "req_12", "req_13", "req_14">>

\* uuidv4(): the n-th identifier drawn is distinct from every other one.
generateCorrelationId(n) == UuidTable[n]
\* `req_${Date.now()}_${random}`: the n-th draw of the random suffix.
generateRequestId(n) == ReqIdTable[n]

\* ------------------------------------------------------------ Map helpers
EmptyMap == [k \in {} |-> Undefined]
MapHas(m, k) == k \in DOMAIN m
MapSet(m, k, v) == [x \in (DOMAIN m) \cup {k} |-> IF x = k THEN v ELSE m[x]]
MapDelete(m, k) == [x \in (DOMAIN m) \ {k} |-> m[x]]
\* obj.key for an object that may lack the key
Prop(obj, key) == IF key \in DOMAIN obj THEN obj[key] ELSE Undefined
\* { ...base, ...options }
Spread(base, options) ==
  [k \in (DOMAIN base) \cup (DOMAIN options) |->
     IF k \in DOMAIN options THEN options[k] ELSE base[k]]

\* Partial<TraceContext> values callers pass as options.
NoOptions == EmptyMap
OptionValues ==
  {NoOptions,
   [provider |-> "anthropic"],
   [correlationId |-> "xyz-9"]}
Operations == {"emotional_analysis", "health_probe"}

\* ------------------------------------------------------------------ state
VARIABLES
  storage,        \* traceContextStorage: Map<string, TraceContext>
  now,            \* Date.now()
  reqIdSeq,       \* request ids generated so far
  uuidSeq,        \* uuids generated so far
  emitted,        \* events the latest step handed to the logger
  calls,          \* registry operations the latest step invoked, with outcome
  traced,         \* withTrace invocations
  directCreates,  \* direct createTraceContext calls made so far
  req,            \* HTTP requests in arrival order, with their responses
  metrics,        \* Metrics Recorder state
  interceptor,    \* the interceptor the app mounts with app.use(...)
  clientNow,          \* Date.now() in the browser, in milliseconds
  lastHealthCheck,    \* BackendClient.lastHealthCheck
  healthCheckCache,   \* BackendClient.healthCheckCache
  pending,            \* BackendClient calls: position, Date.now() read, result
  issued              \* Date.now() of each GET /health sent since the last clear

\* The frontend's BackendClient.
clientVars == <<clientNow, lastHealthCheck, healthCheckCache, pending, issued>>

vars == <<storage, now, reqIdSeq, uuidSeq, emitted, calls, traced,
          directCreates, req, metrics, interceptor, clientVars>>

\* --------------------------------------------------------- Trace Registry
\* Each operation is a function of the registry and its arguments to
\* [storage, emitted, raised, value]: the registry afterwards, the events
\* logged, whether the call raised, and what it returned or raised.

\* createTraceContext with the traceContextStorage.set left out.
createTraceContext_NoStore(st, correlationId, operation, options, t, n) ==
  LET context == Spread([correlationId |-> correlationId,
                         requestId |-> generateRequestId(n),
                         operation |-> operation,
                         startTime |-> t], options)
  IN [storage |-> st,
      emitted |-> <<[level |-> "info", message |-> "Trace started",
                     correlationId |-> context.correlationId,
                     requestId |-> context.requestId,
                     operation |-> context.operation,
                     userId |-> Or(Prop(context, "userId"), "anonymous"),
                     provider |-> Or(Prop(context, "provider"), "unknown")]>>,
      raised |-> FALSE,
      value |-> context]

\* createTraceContext merging the new fields into an entry already there.
createTraceContext_Merge(st, correlationId, operation, options, t, n) ==
  LET fresh == Spread([correlationId |-> correlationId,
                       requestId |-> generateRequestId(n),
                       operation |-> operation,
                       startTime |-> t], options)
      context == IF MapHas(st, correlationId)
                 THEN Spread(st[correlationId], fresh) ELSE fresh
  IN [storage |-> MapSet(st, correlationId, context),
      emitted |-> <<[level |-> "info", message |-> "Trace started",
                     correlationId |-> context.correlationId,
                     requestId |-> context.requestId,
                     operation |-> context.operation,
                     userId |-> Or(Prop(context, "userId"), "anonymous"),
                     provider |-> Or(Prop(context, "provider"), "unknown")]>>,
      raised |-> FALSE,
      value |-> context]

createTraceContext(st, correlationId, operation, options, t, n) ==
  LET context == Spread([correlationId |-> correlationId,
                         requestId |-> generateRequestId(n),
                         operation |-> operation,
                         startTime |-> t], options)
  IN [storage |-> MapSet(st, correlationId, context),
      emitted |-> <<[level |-> "info", message |-> "Trace started",
                     correlationId |-> context.correlationId,
                     requestId |-> context.requestId,
                     operation |-> context.operation,
                     userId |-> Or(Prop(context, "userId"), "anonymous"),
                     provider |-> Or(Prop(context, "provider"), "unknown")]>>,
      raised |-> FALSE,
      value |-> context]

\* getCurrentTraceContext that takes the entry out of the map.
getCurrentTraceContext_Consume(st, correlationId) ==
  [storage |-> MapDelete(st, correlationId),
   emitted |-> <<>>,
   raised |-> FALSE,
   value |-> IF MapHas(st, correlationId) THEN st[correlationId] ELSE JsUndefined]

getCurrentTraceContext(st, correlationId) ==
  [storage |-> st,
   emitted |-> <<>>,
   raised |-> FALSE,
   value |-> IF MapHas(st, correlationId) THEN st[correlationId] ELSE JsUndefined]

\* finishTraceSuccess with the traceContextStorage.delete left out.
finishTraceSuccess_NoDelete(st, correlationId, result, t) ==
  IF ~MapHas(st, correlationId)
  THEN [storage |-> st, emitted |-> <<>>, raised |-> FALSE, value |-> JsUndefined]
  ELSE LET context == st[correlationId]
       IN [storage |-> st,
           emitted |-> <<[level |-> "info",
                          message |-> "Trace completed successfully",
                          correlationId |-> context.correlationId,
                          requestId |-> context.requestId,
                          operation |-> context.operation,
                          duration_ms |-> t - context.startTime,
                          success |-> TRUE,
                          result_type |-> IF ValueTruthy(result)
                                          THEN TypeOf(result) ELSE "void"]>>,
           raised |-> FALSE,
           value |-> JsUndefined]

finishTraceSuccess(st, correlationId, result, t) ==
  IF ~MapHas(st, correlationId)
  THEN [storage |-> st, emitted |-> <<>>, raised |-> FALSE, value |-> JsUndefined]
  ELSE LET context == st[correlationId]
       IN [storage |-> MapDelete(st, correlationId),
           emitted |-> <<[level |-> "info",
                          message |-> "Trace completed successfully",
                          correlationId |-> context.correlationId,
                          requestId |-> context.requestId,
                          operation |-> context.operation,
                          duration_ms |-> t - context.startTime,
                          success |-> TRUE,
                          result_type |-> IF ValueTruthy(result)
                                          THEN TypeOf(result) ELSE "void"]>>,
           raised |-> FALSE,
           value |-> JsUndefined]

\* finishTraceError with the lookup-miss return left out.
finishTraceError_LogOnMiss(st, correlationId, error, t) ==
  IF Nullish(error)
  THEN [storage |-> st, emitted |-> <<>>, raised |-> TRUE,
        value |-> PropertyReadError(error)]
  ELSE [storage |-> MapDelete(st, correlationId),
        emitted |-> <<[level |-> "error",
                       message |-> "Trace completed with error",
                       correlationId |-> correlationId,
                       success |-> FALSE,
                       error_message |-> MessageOf(error),
                       error_type |-> ConstructorNameOf(error),
                       stack |-> StackOf(error)]>>,
        raised |-> FALSE,
        value |-> JsUndefined]

\* error.message is read while the log record is built, before the delete:
\* a null or undefined error makes that read throw.
finishTraceError(st, correlationId, error, t) ==
  IF ~MapHas(st, correlationId)
  THEN [storage |-> st, emitted |-> <<>>, raised |-> FALSE, value |-> JsUndefined]
  ELSE IF Nullish(error)
  THEN [storage |-> st, emitted |-> <<>>, raised |-> TRUE,
        value |-> PropertyReadError(error)]
  ELSE LET context == st[correlationId]
       IN [storage |-> MapDelete(st, correlationId),
           emitted |-> <<[level |-> "error",
                          message |-> "Trace completed with error",
                          correlationId |-> context.correlationId,
                          requestId |-> context.requestId,
                          operation |-> context.operation,
                          duration_ms |-> t - context.startTime,
                          success |-> FALSE,
                          error_message |-> MessageOf(error),
                          error_type |-> ConstructorNameOf(error),
                          stack |-> StackOf(error)]>>,
           raised |-> FALSE,
           value |-> JsUndefined]

\* One entry of calls: which operation ran on which id and how it ended.
Invocation(op, id, out) ==
  [op |-> op, id |-> id, raised |-> out.raised, value |-> out.value]

\* A direct createTraceContext call, with the arguments it was given.
CreateInvocation(id, operation, options, out) ==
  [op |-> "createTraceContext", id |-> id, raised |-> out.raised,
   value |-> out.value, operation |-> operation, options |-> options]

\* ------------------------------------------------------- Metrics Recorder
\* httpRequests counts requests by <<method, route, status>>, httpDurations
\* counts duration observations by <<method, route>>.
InitialMetrics ==
  [activeConnections |-> 0, httpRequests |-> EmptyMap, httpDurations |-> EmptyMap]

Bump(m, k) == MapSet(m, k, IF MapHas(m, k) THEN m[k] + 1 ELSE 1)

incrementActiveConnections(m) ==
  [m EXCEPT !.activeConnections = @ + 1]
decrementActiveConnections(m) ==
  [m EXCEPT !.activeConnections = @ - 1]
incrementHttpRequest(m, method, route, statusCode) ==
  [m EXCEPT !.httpRequests = Bump(@, <<method, route, statusCode>>)]
recordHttpDuration(m, method, route, duration) ==
  [m EXCEPT !.httpDurations = Bump(@, <<method, route>>)]
recordHttpRequestLatency(m, duration, method, route, statusCode) ==
  recordHttpDuration(incrementHttpRequest(m, method, route, statusCode),
                     method, route, duration)

\* ------------------------------------------------------ Request Interceptor
ErrorStatusThreshold == 400

\* Inbound header sets: a missing header reads as undefined.
Headers(xCorrelationId, xRequestId, xUserId) ==
  [xCorrelationId |-> xCorrelationId, xRequestId |-> xRequestId,
   xUserId |-> xUserId, xSessionId |-> Undefined]
InboundHeaders ==
  {Headers(Undefined, Undefined, Undefined),
   Headers("abc-123", "xyz-9", "u1"),
   Headers(Undefined, "abc-123", Undefined),
   Headers("", "xyz-9", Undefined)}
Methods == {"GET"}
Paths == {"/api/health"}
\* How a response can end: its status code and the route pattern that
\* matched (req.route?.path), if any.
ResponseOutcomes ==
  {[statusCode |-> 200, route |-> "/health"],
   [statusCode |-> 400, route |-> "/health"],
   [statusCode |-> 429, route |-> "/health"],
   [statusCode |-> 404, route |-> Undefined]}

HttpErrorMessage(statusCode) ==
  CASE statusCode = 200 -> "HTTP 200"
    [] statusCode = 400 -> "HTTP 400"
    [] statusCode = 404 -> "HTTP 404"
    [] statusCode = 429 -> "HTTP 429"

\* The resolution with the two headers in the other order.
ResolveCorrelationId_RequestIdFirst(headers, generated) ==
  Or(Or(headers.xRequestId, headers.xCorrelationId), generated)

\* headers['x-correlation-id'] || headers['x-request-id'] || <generated>
ResolveCorrelationId(headers, generated) ==
  Or(Or(headers.xCorrelationId, headers.xRequestId), generated)
\* The generator runs only when both headers are falsy.
NeedsGeneratedId(headers) ==
  ~Truthy(Or(headers.xCorrelationId, headers.xRequestId))

\* The route label taking the raw path before the matched pattern.
RouteLabel_PathFirst(route, path) == Or(Or(path, route), "unknown")

\* req.route?.path || req.path || 'unknown'
RouteLabel(route, path) == Or(Or(route, path), "unknown")

\* The status branch with > in place of >=.
FinishBranch_Above400(st, correlationId, statusCode, t) ==
  IF statusCode > ErrorStatusThreshold
  THEN LET out == finishTraceError(st, correlationId,
                                   JsError(HttpErrorMessage(statusCode)), t)
       IN [storage |-> out.storage, emitted |-> out.emitted,
           calls |-> <<Invocation("finishTraceError", correlationId, out)>>]
  ELSE LET out == finishTraceSuccess(st, correlationId, JsUndefined, t)
       IN [storage |-> out.storage, emitted |-> out.emitted,
           calls |-> <<Invocation("finishTraceSuccess", correlationId, out)>>]

\* if (res.statusCode >= 400) finishTraceError(...) else finishTraceSuccess(...)
FinishBranch(st, correlationId, statusCode, t) ==
  IF statusCode >= ErrorStatusThreshold
  THEN LET out == finishTraceError(st, correlationId,
                                   JsError(HttpErrorMessage(statusCode)), t)
       IN [storage |-> out.storage, emitted |-> out.emitted,
           calls |-> <<Invocation("finishTraceError", correlationId, out)>>]
  ELSE LET out == finishTraceSuccess(st, correlationId, JsUndefined, t)
       IN [storage |-> out.storage, emitted |-> out.emitted,
           calls |-> <<Invocation("finishTraceSuccess", correlationId, out)>>]

\* observabilityMiddleware(req, res, next) up to next()
ObservabilityMiddleware(headers, method, path) ==
  /\ interceptor = "observability"
  /\ Len(req) < MaxRequests
  /\ LET correlationId == ResolveCorrelationId(headers, generateCorrelationId(uuidSeq + 1))
         out == createTraceContext(storage, correlationId, method \o " " \o path,
                                   [userId |-> headers.xUserId,
                                    sessionId |-> headers.xSessionId],
                                   now, reqIdSeq + 1)
     IN /\ req' = Append(req,
                    [phase |-> "inflight", headers |-> headers,
                     method |-> method, path |-> path,
                     correlationId |-> correlationId, startTime |-> now,
                     resHeaders |-> [k \in {"x-correlation-id", "x-request-id", "x-service"} |->
                                       IF k = "x-service" THEN "genesis-luminal-api"
                                       ELSE correlationId],
                     statusCode |-> 200, route |-> Undefined,
                     trace |-> out.value])
        /\ storage' = out.storage
        /\ emitted' = out.emitted
        /\ calls' = <<Invocation("createTraceContext", correlationId, out)>>
  /\ uuidSeq' = IF NeedsGeneratedId(headers) THEN uuidSeq + 1 ELSE uuidSeq
  /\ reqIdSeq' = reqIdSeq + 1
  /\ metrics' = incrementActiveConnections(metrics)
  /\ UNCHANGED <<now, traced, directCreates, interceptor, clientVars>>

\* The finish handler with decrementActiveConnections left out.
ObservabilityFinish_NoDecrement(r, outcome) ==
  /\ interceptor = "observability"
  /\ r \in 1..Len(req)
  /\ req[r].phase = "inflight"
  /\ LET duration == now - req[r].startTime
         route == RouteLabel(outcome.route, req[r].path)
         out == FinishBranch(storage, req[r].correlationId, outcome.statusCode, now)
     IN /\ metrics' = recordHttpRequestLatency(metrics, duration, req[r].method,
                                               route, outcome.statusCode)
        /\ storage' = out.storage
        /\ emitted' = out.emitted
        /\ calls' = out.calls
  /\ req' = [req EXCEPT ![r] = [@ EXCEPT !.phase = "finished",
                                         !.statusCode = outcome.statusCode,
                                         !.route = outcome.route]]
  /\ UNCHANGED <<now, reqIdSeq, uuidSeq, traced, directCreates, interceptor, clientVars>>

\* res.on('finish', ...) of observabilityMiddleware
ObservabilityFinish(r, outcome) ==
  /\ interceptor = "observability"
  /\ r \in 1..Len(req)
  /\ req[r].phase = "inflight"
  /\ LET duration == now - req[r].startTime
         route == RouteLabel(outcome.route, req[r].path)
         out == FinishBranch(storage, req[r].correlationId, outcome.statusCode, now)
     IN /\ metrics' = decrementActiveConnections(
                        recordHttpRequestLatency(metrics, duration, req[r].method,
                                                 route, outcome.statusCode))
        /\ storage' = out.storage
        /\ emitted' = out.emitted
        /\ calls' = out.calls
  /\ req' = [req EXCEPT ![r] = [@ EXCEPT !.phase = "finished",
                                         !.statusCode = outcome.statusCode,
                                         !.route = outcome.route]]
  /\ UNCHANGED <<now, reqIdSeq, uuidSeq, traced, directCreates, interceptor, clientVars>>

\* simpleObservabilityMiddleware(req, res, next) up to next()
SimpleObservabilityMiddleware(headers, method, path) ==
  /\ interceptor = "simple"
  /\ Len(req) < MaxRequests
  /\ LET correlationId == ResolveCorrelationId(headers, generateCorrelationId(uuidSeq + 1))
     IN /\ req' = Append(req,
                    [phase |-> "inflight", headers |-> headers,
                     method |-> method, path |-> path,
                     correlationId |-> correlationId, startTime |-> now,
                     resHeaders |-> [k \in {"x-correlation-id", "x-service"} |->
                                       IF k = "x-service" THEN "genesis-luminal-api"
                                       ELSE correlationId],
                     statusCode |-> 200, route |-> Undefined,
                     trace |-> JsUndefined])
        /\ emitted' = <<[level |-> "info", message |-> "HTTP Request started",
                         correlationId |-> correlationId,
                         method |-> method, path |-> path]>>
  /\ calls' = <<>>
  /\ uuidSeq' = IF NeedsGeneratedId(headers) THEN uuidSeq + 1 ELSE uuidSeq
  /\ metrics' = incrementActiveConnections(metrics)
  /\ UNCHANGED <<storage, now, reqIdSeq, traced, directCreates, interceptor, clientVars>>

\* res.on('finish', ...) of simpleObservabilityMiddleware
SimpleFinish(r, outcome) ==
  /\ interceptor = "simple"
  /\ r \in 1..Len(req)
  /\ req[r].phase = "inflight"
  /\ LET duration == now - req[r].startTime
         route == RouteLabel(outcome.route, req[r].path)
     IN /\ metrics' = decrementActiveConnections(
                        recordHttpDuration(
                          incrementHttpRequest(metrics, req[r].method, route,
                                               outcome.statusCode),
                          req[r].method, route, duration))
        /\ emitted' = <<[level |-> "info", message |-> "HTTP Request completed",
                         correlationId |-> req[r].correlationId,
                         method |-> req[r].method, path |-> req[r].path,
                         statusCode |-> outcome.statusCode,
                         duration_ms |-> duration]>>
  /\ calls' = <<>>
  /\ req' = [req EXCEPT ![r] = [@ EXCEPT !.phase = "finished",
                                         !.statusCode = outcome.statusCode,
                                         !.route = outcome.route]]
  /\ UNCHANGED <<storage, now, reqIdSeq, uuidSeq, traced, directCreates, interceptor, clientVars>>

\* healthObservability that also opens a trace and counts the connection.
HealthObservability_Traced(r) ==
  /\ r \in 1..Len(req)
  /\ req[r].phase = "inflight"
  /\ req[r].path = "/api/health"
  /\ ~MapHas(req[r].resHeaders, "x-health-check")
  /\ req' = [req EXCEPT ![r] = [@ EXCEPT !.resHeaders = MapSet(@, "x-health-check", "true")]]
  /\ LET out == createTraceContext(storage, req[r].correlationId, "health_probe",
                                   NoOptions, now, reqIdSeq + 1)
     IN /\ storage' = out.storage
        /\ emitted' = out.emitted
        /\ calls' = <<Invocation("createTraceContext", req[r].correlationId, out)>>
  /\ reqIdSeq' = reqIdSeq + 1
  /\ metrics' = incrementActiveConnections(metrics)
  /\ UNCHANGED <<now, uuidSeq, traced, directCreates, interceptor, clientVars>>

\* app.use('/api/health', healthObservability): runs once, after the
\* interceptor mounted before it, for a request whose path is under the
\* mount point; it sets one response header and calls next().
HealthObservability(r) ==
  /\ r \in 1..Len(req)
  /\ req[r].phase = "inflight"
  /\ req[r].path = "/api/health"
  /\ ~MapHas(req[r].resHeaders, "x-health-check")
  /\ req' = [req EXCEPT ![r] = [@ EXCEPT !.resHeaders = MapSet(@, "x-health-check", "true")]]
  /\ emitted' = <<>>
  /\ calls' = <<>>
  /\ UNCHANGED <<storage, now, reqIdSeq, uuidSeq, traced, directCreates, metrics,
                 interceptor, clientVars>>

\* getObservabilityStatus(): a literal; active_connections is the constant 0.
getObservabilityStatus ==
  [metrics |-> TRUE, tracing |-> TRUE, prometheus_endpoint |-> "/metrics",
   correlation_ids |-> TRUE, structured_logging |-> TRUE,
   active_connections |-> 0]

\* A caller (the GET /api/observability/status handler) reads the status.
GetObservabilityStatusCall ==
  /\ calls' = <<[op |-> "getObservabilityStatus", id |-> Undefined,
                 raised |-> FALSE, value |-> getObservabilityStatus]>>
  /\ emitted' = <<>>
  /\ UNCHANGED <<storage, now, reqIdSeq, uuidSeq, traced, directCreates, req,
                 metrics, interceptor, clientVars>>

\* The client goes away before the response is written: 'close' fires,
\* 'finish' never does, and neither interceptor listens for 'close'.
RequestAborted(r) ==
  /\ r \in 1..Len(req)
  /\ req[r].phase = "inflight"
  /\ req' = [req EXCEPT ![r] = [@ EXCEPT !.phase = "aborted"]]
  /\ emitted' = <<>>
  /\ calls' = <<>>
  /\ UNCHANGED <<storage, now, reqIdSeq, uuidSeq, traced, directCreates, metrics,
                 interceptor, clientVars>>

\* ------------------------------------------------- callers of the registry
\* Other modules call the exported registry operations directly.
CreateTraceContextCall(id, operation, options) ==
  /\ directCreates < MaxDirect
  /\ LET out == createTraceContext(storage, id, operation, options, now, reqIdSeq + 1)
     IN /\ storage' = out.storage
        /\ emitted' = out.emitted
        /\ calls' = <<CreateInvocation(id, operation, options, out)>>
  /\ reqIdSeq' = reqIdSeq + 1
  /\ directCreates' = directCreates + 1
  /\ UNCHANGED <<now, uuidSeq, traced, req, metrics, interceptor, clientVars>>

GetCurrentTraceContextCall(id) ==
  /\ LET out == getCurrentTraceContext(storage, id)
     IN /\ storage' = out.storage
        /\ emitted' = out.emitted
        /\ calls' = <<Invocation("getCurrentTraceContext", id, out)>>
  /\ UNCHANGED <<now, reqIdSeq, uuidSeq, traced, directCreates, req, metrics, interceptor, clientVars>>

FinishTraceSuccessCall(id, result) ==
  /\ LET out == finishTraceSuccess(storage, id, result, now)
     IN /\ storage' = out.storage
        /\ emitted' = out.emitted
        /\ calls' = <<Invocation("finishTraceSuccess", id, out)>>
  /\ UNCHANGED <<now, reqIdSeq, uuidSeq, traced, directCreates, req, metrics, interceptor, clientVars>>

\* Typed callers hand finishTraceError an Error object.
FinishTraceErrorCall(id, error) ==
  /\ LET out == finishTraceError(storage, id, error, now)
     IN /\ storage' = out.storage
        /\ emitted' = out.emitted
        /\ calls' = <<Invocation("finishTraceError", id, out)>>
  /\ UNCHANGED <<now, reqIdSeq, uuidSeq, traced, directCreates, req, metrics, interceptor, clientVars>>

\* createTraceContext and getCurrentTraceContext return the object the map
\* holds, not a copy: a caller that assigns to a field of the context it
\* was just handed writes to the stored object.
MutateReturnedContext(operation) ==
  /\ Len(calls) = 1
  /\ calls[1].op \in {"createTraceContext", "getCurrentTraceContext"}
  /\ calls[1].value # JsUndefined
  /\ MapHas(storage, calls[1].id)
  /\ storage' = [storage EXCEPT ![calls[1].id] = [@ EXCEPT !.operation = operation]]
  /\ calls' = <<[op |-> "context.operation =", id |-> calls[1].id,
                 raised |-> FALSE, value |-> JsString(operation)]>>
  /\ emitted' = <<>>
  /\ UNCHANGED <<now, reqIdSeq, uuidSeq, traced, directCreates, req, metrics, interceptor, clientVars>>

\* ----------------------------------------------------------------- withTrace
\* pc: "idle" (not called), "awaiting" (inside await fn()), "settled" (fn's
\* promise settled, continuation not yet run), "returned", "threw".
IdleTrace ==
  [pc |-> "idle", correlationId |-> Undefined, settle |-> "none",
   fnValue |-> JsUndefined, outcome |-> JsUndefined, finishes |-> <<>>]

CallIds == 1..MaxCalls

\* const context = createTraceContext(...); try { await fn() ...
withTraceEnter(st, correlationId, operation, options, t, n) ==
  createTraceContext(st, correlationId, operation, options, t, n)

\* withTrace whose catch block only rethrows.
withTraceSettled_RethrowOnly(st, correlationId, settle, v, t) ==
  IF settle = "resolved"
  THEN LET out == finishTraceSuccess(st, correlationId, v, t)
       IN [storage |-> out.storage, emitted |-> out.emitted,
           calls |-> <<Invocation("finishTraceSuccess", correlationId, out)>>,
           raised |-> FALSE, value |-> v]
  ELSE [storage |-> st, emitted |-> <<>>, calls |-> <<>>,
        raised |-> TRUE, value |-> v]

\* The rest of withTrace once fn has settled: the try branch after the await,
\* or the catch block.  [storage, emitted, calls, raised, value]
withTraceSettled(st, correlationId, settle, v, t) ==
  IF settle = "resolved"
  THEN LET out == finishTraceSuccess(st, correlationId, v, t)
       IN [storage |-> out.storage, emitted |-> out.emitted,
           calls |-> <<Invocation("finishTraceSuccess", correlationId, out)>>,
           raised |-> FALSE, value |-> v]
  ELSE LET out == finishTraceError(st, correlationId, v, t)
       IN [storage |-> out.storage, emitted |-> out.emitted,
           calls |-> <<Invocation("finishTraceError", correlationId, out)>>,
           raised |-> TRUE,
           value |-> IF out.raised THEN out.value ELSE v]

WithTraceStart(c, id, operation, options) ==
  /\ traced[c].pc = "idle"
  /\ \A d \in CallIds : d < c => traced[d].pc # "idle"
  /\ LET out == withTraceEnter(storage, id, operation, options, now, reqIdSeq + 1)
     IN /\ storage' = out.storage
        /\ emitted' = out.emitted
        /\ calls' = <<Invocation("createTraceContext", id, out)>>
  /\ reqIdSeq' = reqIdSeq + 1
  /\ traced' = [traced EXCEPT ![c] = [@ EXCEPT !.pc = "awaiting", !.correlationId = id]]
  /\ UNCHANGED <<now, uuidSeq, directCreates, req, metrics, interceptor, clientVars>>

\* withEmotionalAnalysisTrace(correlationId, provider, textLength, fn)
WithEmotionalAnalysisTraceStart(c, id, provider, textLength) ==
  WithTraceStart(c, id, "emotional_analysis",
                 [provider |-> provider, metadata |-> [text_length |-> textLength]])

\* The wrapped operation settles: it resolves with v or rejects with v.
FnSettles(c, settle, v) ==
  /\ traced[c].pc = "awaiting"
  /\ traced' = [traced EXCEPT ![c] = [@ EXCEPT !.pc = "settled", !.settle = settle, !.fnValue = v]]
  /\ emitted' = <<>>
  /\ calls' = <<>>
  /\ UNCHANGED <<storage, now, reqIdSeq, uuidSeq, directCreates, req, metrics, interceptor, clientVars>>

WithTraceResume(c) ==
  /\ traced[c].pc = "settled"
  /\ LET out == withTraceSettled(storage, traced[c].correlationId,
                                 traced[c].settle, traced[c].fnValue, now)
     IN /\ storage' = out.storage
        /\ emitted' = out.emitted
        /\ calls' = out.calls
        /\ traced' = [traced EXCEPT ![c] =
                        [@ EXCEPT !.pc = IF out.raised THEN "threw" ELSE "returned",
                                  !.outcome = out.value,
                                  !.finishes = [i \in 1..Len(out.calls) |-> out.calls[i].op]]]
  /\ UNCHANGED <<now, reqIdSeq, uuidSeq, directCreates, req, metrics, interceptor, clientVars>>

Tick ==
  /\ now < MaxTime
  /\ now' = now + 1
  /\ emitted' = <<>>
  /\ calls' = <<>>
  /\ UNCHANGED <<storage, reqIdSeq, uuidSeq, traced, directCreates, req, metrics, interceptor, clientVars>>

\* ------------------------------------------------------------ BackendClient
HEALTH_CHECK_INTERVAL == 30000
REQUEST_TIMEOUT == 5000

\* Instants at which the browser clock is read: each interval's start and
\* the moment a request sent then times out.
ClientInstant(i) == (i \div 2) * HEALTH_CHECK_INTERVAL + (i % 2) * REQUEST_TIMEOUT
ClientInstants == {ClientInstant(i) : i \in 0..MaxClientTicks}

ClientCallIds == 1..MaxClientCalls
IdleCall == [pc |-> "idle", method |-> Undefined, now |-> 0]

\* Errors fetch() and response.json() reject with.
JsAbortError == [type |-> "AbortError", text |-> "The operation was aborted"]
JsSyntaxError == [type |-> "SyntaxError", text |-> "Unexpected token"]
NetworkError == JsTypeError("Failed to fetch")

\* A response body: JSON text of an object, the JSON text null, or text
\* that is not JSON.
JsonObject(data) == [json |-> "object", data |-> data]
JsonNull == [json |-> "null", data |-> EmptyMap]
NotJson == [json |-> "invalid", data |-> EmptyMap]

Response(ok, body) == [kind |-> "response", ok |-> ok, body |-> body]
FetchRejects(error) == [kind |-> "rejected", ok |-> FALSE, body |-> NotJson, error |-> error]

\* How the request of a call can end.
FetchOutcomes(method) ==
  {FetchRejects(NetworkError), FetchRejects(JsAbortError),
   Response(TRUE, JsonNull), Response(TRUE, NotJson), Response(FALSE, NotJson),
   Response(TRUE, JsonObject(EmptyMap))}
  \cup (IF method = "healthCheck"
        THEN {Response(TRUE, JsonObject([status |-> "healthy"])),
              Response(FALSE, JsonObject([status |-> "degraded"]))}
        ELSE {Response(TRUE, JsonObject([confidence |-> "0.9",
                                         recommendation |-> "spiral",
                                         emotionalShift |-> "rising"])),
              Response(FALSE, JsonObject([error |-> "rate limited"]))})

\* await fetch(...); await response.json(): the parsed body, or what was
\* thrown on the way.  [raised, value]
FetchAndParse(outcome) ==
  IF outcome.kind = "rejected" THEN [raised |-> TRUE, value |-> outcome.error]
  ELSE IF outcome.body.json = "invalid" THEN [raised |-> TRUE, value |-> JsSyntaxError]
  ELSE [raised |-> FALSE, value |-> outcome.body]

\* healthCheck whose catch block rethrows.
healthCheckResult_NoCatch(outcome) ==
  LET parsed == FetchAndParse(outcome)
  IN IF parsed.raised
     THEN [raised |-> TRUE, value |-> parsed.value]
     ELSE IF parsed.value.json = "null"
     THEN [raised |-> TRUE, value |-> PropertyReadError(JsNull)]
     ELSE [raised |-> FALSE,
           value |-> [success |-> outcome.ok,
                      status |-> Or(Prop(parsed.value.data, "status"), "unknown")]]

\* healthCheck from the fetch on: the try block and the catch block.
healthCheckResult(outcome) ==
  LET parsed == FetchAndParse(outcome)
      offline(error) == [success |-> FALSE, status |-> "offline", error |-> error]
  IN IF parsed.raised
     THEN [raised |-> FALSE, value |-> offline(parsed.value)]
     ELSE IF parsed.value.json = "null"
     THEN [raised |-> FALSE, value |-> offline(PropertyReadError(JsNull))]
     ELSE [raised |-> FALSE,
           value |-> [success |-> outcome.ok,
                      status |-> Or(Prop(parsed.value.data, "status"), "unknown")]]

\* analyzeEmotionalState from the fetch on.
analyzeEmotionalStateResult(outcome) ==
  LET parsed == FetchAndParse(outcome)
      fallback(error) == [success |-> FALSE, confidence |-> "0.5",
                          recommendation |-> "fibonacci", error |-> error]
  IN IF parsed.raised
     THEN [raised |-> FALSE, value |-> fallback(parsed.value)]
     ELSE IF ~outcome.ok
     THEN [raised |-> FALSE, value |-> fallback(parsed.value)]
     ELSE IF parsed.value.json = "null"
     THEN [raised |-> FALSE, value |-> fallback(PropertyReadError(JsNull))]
     ELSE LET data == parsed.value.data
          IN [raised |-> FALSE,
              value |-> [success |-> TRUE,
                         confidence |-> Or(Prop(data, "confidence"), "0.5"),
                         recommendation |-> Or(Prop(data, "recommendation"), "fibonacci"),
                         emotionalShift |-> Or(Prop(data, "emotionalShift"), "stable"),
                         morphogenicSuggestion |->
                           Or(Prop(data, "morphogenicSuggestion"), "fibonacci")]]

\* One entry of calls for a BackendClient method: how its promise settled
\* and, if it sent a request, how that request ended.
ClientInvocation(op, c, out, fetch) ==
  [op |-> op, id |-> c, raised |-> out.raised, value |-> out.value, fetch |-> fetch]
NoFetch == [kind |-> "none"]

\* The cache answers: there is a cached result younger than the interval.
CacheFresh(t) ==
  healthCheckCache # JsNull /\ (t - lastHealthCheck) < HEALTH_CHECK_INTERVAL

\* healthCheck() up to its first await: answer from the cache, or send
\* GET /health and suspend.
HealthCheckStart(c) ==
  /\ pending[c].pc = "idle"
  /\ \A d \in ClientCallIds : d < c => pending[d].pc # "idle"
  /\ IF CacheFresh(clientNow)
     THEN /\ pending' = [pending EXCEPT ![c] = [@ EXCEPT !.pc = "done",
                                                          !.method = "healthCheck"]]
          /\ calls' = <<ClientInvocation("healthCheck", c,
                          [raised |-> FALSE, value |-> healthCheckCache], NoFetch)>>
          /\ issued' = issued
     ELSE /\ pending' = [pending EXCEPT ![c] = [pc |-> "fetching",
                                                method |-> "healthCheck",
                                                now |-> clientNow]]
          /\ calls' = <<>>
          /\ issued' = Append(issued, clientNow)
  /\ emitted' = <<>>
  /\ UNCHANGED <<storage, now, reqIdSeq, uuidSeq, traced, directCreates, req, metrics,
                 interceptor, clientNow, lastHealthCheck, healthCheckCache>>

\* analyzeEmotionalState(request) up to its first await.
AnalyzeEmotionalStateStart(c) ==
  /\ pending[c].pc = "idle"
  /\ \A d \in ClientCallIds : d < c => pending[d].pc # "idle"
  /\ pending' = [pending EXCEPT ![c] = [pc |-> "fetching",
                                        method |-> "analyzeEmotionalState",
                                        now |-> clientNow]]
  /\ emitted' = <<>>
  /\ calls' = <<>>
  /\ UNCHANGED <<storage, now, reqIdSeq, uuidSeq, traced, directCreates, req, metrics,
                 interceptor, clientNow, lastHealthCheck, healthCheckCache, issued>>

\* The request of call c ends and the method runs to its return.  The
\* timeout aborts the fetch only once REQUEST_TIMEOUT has passed.
FetchSettles(c, outcome) ==
  /\ pending[c].pc = "fetching"
  /\ outcome \in FetchOutcomes(pending[c].method)
  /\ (outcome.kind = "rejected" /\ outcome.error = JsAbortError) =>
       clientNow - pending[c].now >= REQUEST_TIMEOUT
  /\ IF pending[c].method = "healthCheck"
     THEN LET out == healthCheckResult(outcome)
          IN /\ calls' = <<ClientInvocation("healthCheck", c, out, outcome)>>
             /\ IF out.raised
                THEN UNCHANGED <<healthCheckCache, lastHealthCheck>>
                ELSE /\ healthCheckCache' = out.value
                     /\ lastHealthCheck' = pending[c].now
     ELSE /\ calls' = <<ClientInvocation("analyzeEmotionalState", c,
                                         analyzeEmotionalStateResult(outcome), outcome)>>
          /\ UNCHANGED <<healthCheckCache, lastHealthCheck>>
  /\ pending' = [pending EXCEPT ![c] = [@ EXCEPT !.pc = "done", !.now = 0]]
  /\ emitted' = <<>>
  /\ UNCHANGED <<storage, now, reqIdSeq, uuidSeq, traced, directCreates, req, metrics,
                 interceptor, clientNow, issued>>

\* clearHealthCheckCache()
ClearHealthCheckCache ==
  /\ healthCheckCache' = JsNull
  /\ lastHealthCheck' = 0
  /\ issued' = <<>>
  /\ emitted' = <<>>
  /\ calls' = <<[op |-> "clearHealthCheckCache", id |-> 0, raised |-> FALSE,
                 value |-> JsUndefined, fetch |-> NoFetch]>>
  /\ UNCHANGED <<storage, now, reqIdSeq, uuidSeq, traced, directCreates, req, metrics,
                 interceptor, clientNow, pending>>

\* The browser clock moves on to the next instant.
ClientTick ==
  /\ \E t \in ClientInstants :
       /\ t > clientNow
       /\ \A u \in ClientInstants : u > clientNow => t <= u
       /\ clientNow' = t
  /\ emitted' = <<>>
  /\ calls' = <<>>
  /\ UNCHANGED <<storage, now, reqIdSeq, uuidSeq, traced, directCreates, req, metrics,
                 interceptor, lastHealthCheck, healthCheckCache, pending, issued>>

\* ---------------------------------------------------------------- behaviour
Init ==
  /\ storage = EmptyMap
  /\ now = 0
  /\ reqIdSeq = 0
  /\ uuidSeq = 0
  /\ emitted = <<>>
  /\ calls = <<>>
  /\ traced = [c \in CallIds |-> IdleTrace]
  /\ directCreates = 0
  /\ req = <<>>
  /\ metrics = InitialMetrics
  /\ interceptor \in {"observability", "simple"}
  /\ clientNow = 0
  /\ lastHealthCheck = 0
  /\ healthCheckCache = JsNull
  /\ pending = [c \in ClientCallIds |-> IdleCall]
  /\ issued = <<>>

DirectCreate == \E id \in ClientIds, op \in Operations, o \in OptionValues :
                  CreateTraceContextCall(id, op, o)
DirectGet == \E id \in ClientIds : GetCurrentTraceContextCall(id)
DirectFinishSuccess == \E id \in ClientIds, r \in ResultValues : FinishTraceSuccessCall(id, r)
DirectFinishError == \E id \in ClientIds : FinishTraceErrorCall(id, JsError("boom"))
CallerMutates == MutateReturnedContext("tampered")
TraceStart == \E c \in CallIds, id \in ClientIds :
                WithTraceStart(c, id, "provider_call", NoOptions)
EmotionalTraceStart == \E c \in CallIds, id \in ClientIds :
                         WithEmotionalAnalysisTraceStart(c, id, "anthropic", 24)
FnResolves == \E c \in CallIds, v \in ResultValues : FnSettles(c, "resolved", v)
FnRejects == \E c \in CallIds, v \in ThrownValues : FnSettles(c, "rejected", v)
TraceResume == \E c \in CallIds : WithTraceResume(c)

NextTracing ==
  \/ DirectCreate
  \/ DirectGet
  \/ DirectFinishSuccess
  \/ DirectFinishError
  \/ CallerMutates
  \/ TraceStart
  \/ EmotionalTraceStart
  \/ FnResolves
  \/ FnRejects
  \/ TraceResume
  \/ Tick

SpecTracing == Init /\ [][NextTracing]_vars

RequestIds == 1..MaxRequests
ObservabilityStart == \E h \in InboundHeaders, m \in Methods, p \in Paths :
                        ObservabilityMiddleware(h, m, p)
ObservabilityEnd == \E r \in RequestIds, o \in ResponseOutcomes : ObservabilityFinish(r, o)
SimpleStart == \E h \in InboundHeaders, m \in Methods, p \in Paths :
                 SimpleObservabilityMiddleware(h, m, p)
SimpleEnd == \E r \in RequestIds, o \in ResponseOutcomes : SimpleFinish(r, o)
Abort == \E r \in RequestIds : RequestAborted(r)
HealthTag == \E r \in RequestIds : HealthObservability(r)
StatusRead == GetObservabilityStatusCall
HealthCheck == \E c \in ClientCallIds : HealthCheckStart(c)
AnalyzeEmotionalState == \E c \in ClientCallIds : AnalyzeEmotionalStateStart(c)
FetchEnds == \E c \in ClientCallIds :
               \E o \in FetchOutcomes("healthCheck") \cup FetchOutcomes("analyzeEmotionalState") :
                 FetchSettles(c, o)

\* The interceptors under HTTP traffic.
NextHttp ==
  \/ ObservabilityStart
  \/ ObservabilityEnd
  \/ SimpleStart
  \/ SimpleEnd
  \/ Abort
  \/ Tick

SpecHttp == Init /\ [][NextHttp]_vars

\* HTTP traffic with the health interceptor mounted on /api/health, at one
\* instant of the clock.
NextHealth ==
  \/ ObservabilityStart
  \/ ObservabilityEnd
  \/ SimpleStart
  \/ SimpleEnd
  \/ Abort
  \/ HealthTag

SpecHealth == Init /\ [][NextHealth]_vars

\* HTTP traffic and reads of the observability status.
NextStatus == NextHttp \/ StatusRead

SpecStatus == Init /\ [][NextStatus]_vars

\* The BackendClient of one browser page.
NextClient ==
  \/ HealthCheck
  \/ AnalyzeEmotionalState
  \/ FetchEnds
  \/ ClearHealthCheckCache
  \/ ClientTick

SpecClient == Init /\ [][NextClient]_vars

Next == NextTracing \/ NextHttp \/ HealthTag \/ StatusRead \/ NextClient

Spec == Init /\ [][Next]_vars

\* The registry under its direct callers alone.
NextRegistry ==
  \/ DirectCreate
  \/ DirectGet
  \/ DirectFinishSuccess
  \/ DirectFinishError
  \/ CallerMutates
  \/ Tick

SpecRegistry == Init /\ [][NextRegistry]_vars

\* withTrace invocations, with other callers finishing traces meanwhile.
NextWithTrace ==
  \/ TraceStart
  \/ EmotionalTraceStart
  \/ FnResolves
  \/ FnRejects
  \/ TraceResume
  \/ DirectFinishSuccess
  \/ DirectFinishError
  \/ Tick

SpecWithTrace == Init /\ [][NextWithTrace]_vars

\* ====================================================================
\* Properties
\* ====================================================================
FinishOps == {"finishTraceSuccess", "finishTraceError"}
Invoked(cs) == {cs[i] : i \in DOMAIN cs}

\* C1: once createTraceContext(id) has run the registry holds a context for
\* id, and getCurrentTraceContext(id) finds it, in every step up to one that
\* invokes finishTraceSuccess(id) or finishTraceError(id); a finish call that
\* returns leaves getCurrentTraceContext(id) not-found.
C1_TraceContextLifecycle ==
  [][/\ \A k \in Invoked(calls') :
          k.op = "createTraceContext" =>
            /\ MapHas(storage', k.id)
            /\ getCurrentTraceContext(storage', k.id).value = k.value
     /\ \A id \in DOMAIN storage :
          ~MapHas(storage', id) =>
            \E k \in Invoked(calls') : k.op \in FinishOps /\ k.id = id
     /\ \A k \in Invoked(calls') :
          (k.op \in FinishOps /\ ~k.raised) =>
            getCurrentTraceContext(storage', k.id).value = JsUndefined]_vars

\* A finish call has just returned after logging the completion of a context
\* that was in the registry, and the id is gone.
C1_Witness ==
  \E k \in Invoked(calls) :
    /\ k.op \in FinishOps
    /\ ~k.raised
    /\ Len(emitted) = 1
    /\ emitted[1].correlationId = k.id
    /\ ~MapHas(storage, k.id)

\* C2: when fn raises E, withTrace propagates exactly E and the registry
\* holds no context for the id once withTrace has settled.
C2_ErrorPropagatedUnchanged ==
  [][\A c \in CallIds :
       (traced[c].pc = "settled" /\ traced[c].settle = "rejected"
          /\ traced'[c].pc # "settled") =>
         /\ traced'[c].pc = "threw"
         /\ traced'[c].outcome = traced[c].fnValue
         /\ ~MapHas(storage', traced[c].correlationId)]_vars

\* C3: withTrace creates the context before fn runs; no finish operation
\* runs while fn is pending; when withTrace returns or propagates it has
\* run exactly one finish operation, finishTraceSuccess iff fn resolved and
\* finishTraceError iff fn raised, and it returns iff fn resolved.
C3_ScopedAcquireRelease ==
  [][\A c \in CallIds :
       /\ (traced[c].pc = "idle" /\ traced'[c].pc # "idle") =>
            /\ traced'[c].pc = "awaiting"
            /\ \E k \in Invoked(calls') :
                 k.op = "createTraceContext" /\ k.id = traced'[c].correlationId
            /\ MapHas(storage', traced'[c].correlationId)
       /\ traced'[c].pc \in {"idle", "awaiting", "settled"} =>
            traced'[c].finishes = <<>>
       /\ traced'[c].pc \in {"returned", "threw"} =>
            /\ traced[c].pc \in {"settled", traced'[c].pc}
            /\ Len(traced'[c].finishes) = 1
            /\ traced'[c].finishes[1] =
                 (IF traced'[c].settle = "resolved"
                  THEN "finishTraceSuccess" ELSE "finishTraceError")
            /\ (traced'[c].pc = "returned") = (traced'[c].settle = "resolved")
       /\ (traced[c].pc = "settled" /\ traced'[c].pc # "settled") =>
            /\ Len(calls') = 1
            /\ calls'[1].op = traced'[c].finishes[1]
            /\ calls'[1].id = traced[c].correlationId]_vars

\* withTrace propagated its operation's failure after the clock had moved
\* while fn was suspended, having run finishTraceError once.
C3_Witness ==
  \E c \in CallIds :
    /\ traced[c].pc = "threw"
    /\ traced[c].finishes = <<"finishTraceError">>
    /\ Len(emitted) = 1
    /\ emitted[1].message = "Trace completed with error"
    /\ emitted[1].duration_ms > 0

\* C7: a finish operation on an id the registry does not hold (never
\* created, or already finished by either operation) leaves the registry
\* unchanged, logs nothing and does not raise.
C7_FinishIdempotent ==
  [][\A k \in Invoked(calls') :
       (k.op \in FinishOps /\ ~MapHas(storage, k.id)) =>
         /\ storage' = storage
         /\ emitted' = <<>>
         /\ ~k.raised]_vars

\* withTrace's catch block called finishTraceError with a null error on an
\* id another caller had already finished: nothing logged, nothing raised.
C7_Witness ==
  \E c \in CallIds :
    /\ traced[c].pc = "threw"
    /\ traced[c].fnValue = JsNull
    /\ traced[c].outcome = JsNull
    /\ calls = <<[op |-> "finishTraceError", id |-> traced[c].correlationId,
                  raised |-> FALSE, value |-> JsUndefined]>>
    /\ emitted = <<>>
    /\ ~MapHas(storage, traced[c].correlationId)

\* C8: no registry operation raises, whatever it is handed, so a failure
\* leaving withTrace is always the wrapped operation's own.
C8_RegistryNeverRaises ==
  /\ \A k \in Invoked(calls) : ~k.raised
  /\ \A c \in CallIds :
       traced[c].pc = "threw" =>
         /\ traced[c].settle = "rejected"
         /\ traced[c].outcome = traced[c].fnValue

\* Requests the interceptor has started.
Started == 1..Len(req)
\* The step is the response-finished event of request r.
FinishFires(r) == req[r].phase = "inflight" /\ req'[r].phase = "finished"
CompletionMessages == {"Trace completed successfully", "Trace completed with error"}

\* C4: when the response-finished event of a request handled by
\* observabilityMiddleware fires, exactly one finish operation is invoked,
\* on that request's correlation id, and it completes the trace that request
\* started: one completion event, carrying that trace's requestId.
C4_OneFinishPerStartedTrace ==
  [][\A r \in Started :
       (interceptor = "observability" /\ FinishFires(r)) =>
         /\ Len(calls') = 1
         /\ calls'[1].op \in FinishOps
         /\ calls'[1].id = req[r].correlationId
         /\ Len(emitted') = 1
         /\ emitted'[1].message \in CompletionMessages
         /\ emitted'[1].requestId = req[r].trace.requestId]_vars

\* C5: requests in flight at the same time have distinct correlation ids,
\* and while a request is in flight the context it created stays in the
\* registry under its id, neither overwritten nor removed by another request.
C5_ConcurrentRequestsDoNotContend ==
  interceptor = "observability" =>
    /\ \A r, q \in Started :
         (r # q /\ req[r].phase = "inflight" /\ req[q].phase = "inflight") =>
           req[r].correlationId # req[q].correlationId
    /\ \A r \in Started :
         req[r].phase = "inflight" =>
           /\ MapHas(storage, req[r].correlationId)
           /\ storage[req[r].correlationId] = req[r].trace

\* C6: the active-connection gauge is 0 at start, never negative, and always
\* the number of requests started whose response-finished event has not
\* fired; it is 0 once every started request has finished.
C6_ActiveConnectionGauge ==
  /\ metrics.activeConnections =
       Cardinality({r \in Started : req[r].phase # "finished"})
  /\ metrics.activeConnections >= 0
  /\ (\A r \in Started : req[r].phase = "finished") => metrics.activeConnections = 0

\* Two requests were started, one has finished and one is still in flight.
C6_Witness ==
  /\ Len(req) >= 2
  /\ req[1].phase = "inflight"
  /\ req[2].phase = "finished"
  /\ metrics.activeConnections = 1

\* The id the claim expects for a request: the inbound x-correlation-id if
\* supplied, else the inbound x-request-id if supplied, else a generated id.
Supplied(h) == h # Undefined /\ h # ""
GeneratedIds == {generateCorrelationId(n) : n \in 1..uuidSeq}
HasExpectedId(r, id) ==
  IF Supplied(req[r].headers.xCorrelationId)
  THEN id = req[r].headers.xCorrelationId
  ELSE IF Supplied(req[r].headers.xRequestId)
  THEN id = req[r].headers.xRequestId
  ELSE /\ id \in GeneratedIds
       /\ \A q \in Started : (q # r /\ req[q].correlationId = id) => FALSE

\* C9 as stated: for every request handled by either interceptor the
\* x-correlation-id response header is the expected id, non-empty, and the
\* same value is req.correlationId, the x-request-id response header and the
\* key of the request's trace context.
C9_CorrelationIdResolution ==
  \A r \in Started :
    LET id == Prop(req[r].resHeaders, "x-correlation-id")
    IN /\ Supplied(id)
       /\ HasExpectedId(r, id)
       /\ req[r].correlationId = id
       /\ Prop(req[r].resHeaders, "x-request-id") = id

\* C9 amended: x-correlation-id and req.correlationId as stated under both
\* interceptors; under observabilityMiddleware the id is also the
\* x-request-id response header and the registry key of the request's trace
\* context, while simpleObservabilityMiddleware sets no x-request-id header
\* and creates no trace context.
C9_CorrelationIdResolutionAmended ==
  [][\A r \in 1..Len(req') :
       LET id == Prop(req'[r].resHeaders, "x-correlation-id")
       IN /\ Supplied(id)
          /\ (IF Supplied(req'[r].headers.xCorrelationId)
              THEN id = req'[r].headers.xCorrelationId
              ELSE IF Supplied(req'[r].headers.xRequestId)
              THEN id = req'[r].headers.xRequestId
              ELSE /\ id \in {generateCorrelationId(n) : n \in 1..uuidSeq'}
                   /\ \A q \in 1..Len(req') : req'[q].correlationId = id => q = r)
          /\ req'[r].correlationId = id
          /\ IF interceptor = "observability"
             THEN /\ Prop(req'[r].resHeaders, "x-request-id") = id
                  /\ r > Len(req) =>
                       /\ calls' = <<[op |-> "createTraceContext", id |-> id,
                                      raised |-> FALSE, value |-> req'[r].trace]>>
                       /\ MapHas(storage', id)
                       /\ storage'[id] = req'[r].trace
             ELSE /\ ~MapHas(req'[r].resHeaders, "x-request-id")
                  /\ req'[r].trace = JsUndefined
                  /\ storage' = storage]_vars

\* A request that supplied both headers got the x-correlation-id value, and
\* a request that supplied neither got a generated one.
C9_Witness ==
  \E r, q \in Started :
    /\ Supplied(req[r].headers.xCorrelationId)
    /\ Supplied(req[r].headers.xRequestId)
    /\ req[r].resHeaders["x-correlation-id"] = req[r].headers.xCorrelationId
    /\ req[q].headers.xCorrelationId = Undefined
    /\ req[q].headers.xRequestId = Undefined
    /\ req[q].resHeaders["x-correlation-id"] \in GeneratedIds

\* C10: when the response-finished event of a traced request fires, the
\* one finish operation invoked is finishTraceError iff the status code is
\* >= 400 and finishTraceSuccess otherwise; the event closing the trace is
\* error-level and carries the status code in the first case, info-level
\* in the second.
C10_StatusBranching ==
  [][\A r \in Started :
       (interceptor = "observability" /\ FinishFires(r)) =>
         /\ Len(calls') = 1
         /\ (calls'[1].op = "finishTraceError") = (req'[r].statusCode >= 400)
         /\ (calls'[1].op = "finishTraceSuccess") = (req'[r].statusCode < 400)
         /\ MapHas(storage, req[r].correlationId) => Len(emitted') = 1
         /\ \A i \in DOMAIN emitted' :
              IF req'[r].statusCode >= 400
              THEN /\ emitted'[i].level = "error"
                   /\ emitted'[i].message = "Trace completed with error"
                   /\ emitted'[i].error_message = HttpErrorMessage(req'[r].statusCode)
              ELSE /\ emitted'[i].level = "info"
                   /\ emitted'[i].message = "Trace completed successfully"]_vars

\* A traced request ended with status 429 and was closed by finishTraceError
\* with an error-level event.
C10_Witness ==
  \E r \in Started :
    /\ interceptor = "observability"
    /\ req[r].phase = "finished"
    /\ req[r].statusCode = 429
    /\ calls = <<[op |-> "finishTraceError", id |-> req[r].correlationId,
                  raised |-> FALSE, value |-> JsUndefined]>>
    /\ Len(emitted) = 1
    /\ emitted[1].level = "error"
    /\ emitted[1].error_message = "HTTP 429"

\* The step ran a direct createTraceContext call k.
DirectCreates(cs) == {k \in Invoked(cs) : k.op = "createTraceContext" /\ "options" \in DOMAIN k}
CoreFields == {"correlationId", "requestId", "operation", "startTime"}

\* C11: right after createTraceContext(id, op), getCurrentTraceContext(id)
\* returns a context with correlationId = id, operation = op and
\* startTime <= now, and it is the context createTraceContext returned.
C11_CreateThenGet ==
  [][\A k \in DirectCreates(calls') :
       DOMAIN k.options = {} =>
         LET got == getCurrentTraceContext(storage', k.id).value
         IN /\ got # JsUndefined
            /\ got.correlationId = k.id
            /\ got.operation = k.operation
            /\ got.startTime <= now'
            /\ got = k.value]_vars

\* A two-argument createTraceContext has just run after the clock moved.
C11_Witness ==
  \E k \in DirectCreates(calls) :
    /\ DOMAIN k.options = {}
    /\ k.operation = "health_probe"
    /\ MapHas(storage, k.id)
    /\ storage[k.id].startTime = 1
    /\ now = 1

\* C12: createTraceContext on an id that already has an entry leaves one
\* entry for it, made of the second call's operation and attributes, a
\* request id never generated before and the current time; no other field
\* of the earlier context is kept, and entries under other ids are unchanged.
C12_DuplicateCreateLastWriterWins ==
  [][\A k \in DirectCreates(calls') :
       MapHas(storage, k.id) =>
         LET old == storage[k.id]
             new == storage'[k.id]
         IN /\ DOMAIN storage' = DOMAIN storage
            /\ \A j \in DOMAIN storage \ {k.id} : storage'[j] = storage[j]
            /\ DOMAIN new = CoreFields \cup DOMAIN k.options
            /\ \A f \in DOMAIN k.options : new[f] = k.options[f]
            /\ "operation" \notin DOMAIN k.options => new.operation = k.operation
            /\ "correlationId" \notin DOMAIN k.options => new.correlationId = k.id
            /\ new.startTime = now'
            /\ new.requestId # old.requestId
            /\ new.requestId \notin {generateRequestId(n) : n \in 1..reqIdSeq}]_vars

\* Two direct creates ran and the registry holds the second one's context,
\* without the provider attribute only the first could have set.
C12_Witness ==
  \E k \in DirectCreates(calls) :
    /\ directCreates = 2
    /\ DOMAIN storage = {k.id}
    /\ DOMAIN k.options = {}
    /\ storage[k.id].requestId = generateRequestId(2)
    /\ "provider" \notin DOMAIN storage[k.id]

\* C13: getCurrentTraceContext changes neither the registry nor the log and
\* never fails: it returns the stored context, or not-found for an id the
\* registry does not hold.
C13_LookupIsPure ==
  [][\A k \in Invoked(calls') :
       k.op = "getCurrentTraceContext" =>
         /\ storage' = storage
         /\ emitted' = <<>>
         /\ ~k.raised
         /\ k.value = (IF MapHas(storage, k.id) THEN storage[k.id] ELSE JsUndefined)]_vars

\* A lookup of an id the registry does not hold returned not-found while
\* another id's entry stayed in place.
C13_Witness ==
  \E k \in Invoked(calls) :
    /\ k.op = "getCurrentTraceContext"
    /\ k.value = JsUndefined
    /\ ~MapHas(storage, k.id)
    /\ storage # EmptyMap

\* C14: a caller changing a field of a context it was handed does not change
\* what the registry holds: a later getCurrentTraceContext for the id
\* returns the same context as before the change.
C14_ReturnedContextIsCopy ==
  [][\A k \in Invoked(calls') :
       k.op = "context.operation =" =>
         getCurrentTraceContext(storage', k.id).value =
           getCurrentTraceContext(storage, k.id).value]_vars

\* C20: every context in the registry has the correlationId it is stored
\* under, whatever attributes createTraceContext was given.
C20_KeyConsistency ==
  \A k \in DOMAIN storage : storage[k].correlationId = k

\* The route label the metrics of finished request r are filed under: the
\* matched route pattern if any, else the raw path, else "unknown".
ExpectedRoute(r) ==
  IF req[r].route \notin {Undefined, ""} THEN req[r].route
  ELSE IF req[r].path \notin {Undefined, ""} THEN req[r].path
  ELSE "unknown"
Finished == {r \in Started : req[r].phase = "finished"}
Count(m, k) == IF MapHas(m, k) THEN m[k] ELSE 0
RequestKey(r) == <<req[r].method, ExpectedRoute(r), req[r].statusCode>>
DurationKey(r) == <<req[r].method, ExpectedRoute(r)>>

\* C16: every finished request has added exactly one to the request counter
\* under (method, route, status) and one observation to the duration
\* histogram under (method, route), route being the matched pattern, else
\* the raw path, else "unknown"; a request whose finished event has not
\* fired has added nothing.
C16_MetricsPerCompletedRequest ==
  /\ \A k \in DOMAIN metrics.httpRequests \cup {RequestKey(r) : r \in Finished} :
       Count(metrics.httpRequests, k) = Cardinality({r \in Finished : RequestKey(r) = k})
  /\ \A k \in DOMAIN metrics.httpDurations \cup {DurationKey(r) : r \in Finished} :
       Count(metrics.httpDurations, k) = Cardinality({r \in Finished : DurationKey(r) = k})

\* One request finished with no route matched and is counted under its raw
\* path, while another request never finished and is counted nowhere.
C16_Witness ==
  /\ \E r \in Finished : req[r].route = Undefined /\ req[r].statusCode = 404
  /\ \E r \in Started : req[r].phase = "aborted"
  /\ Count(metrics.httpRequests, <<"GET", "/api/health", 404>>) = 1
  /\ Count(metrics.httpDurations, <<"GET", "/api/health">>) = 1
  /\ DOMAIN metrics.httpRequests = {<<"GET", "/api/health", 404>>}

\* C18: a request through observabilityMiddleware whose client went away
\* before the response finished keeps its context in the registry and its
\* increment of the active-connection gauge, from then on.
C18_AbortedRequestsLeak ==
  interceptor = "observability" =>
    /\ \A r \in Started :
         req[r].phase = "aborted" =>
           /\ MapHas(storage, req[r].correlationId)
           /\ storage[req[r].correlationId] = req[r].trace
    /\ metrics.activeConnections >=
         Cardinality({r \in Started : req[r].phase = "aborted"})

\* Traced operations in flight: withTrace calls between their
\* createTraceContext and their finish call, and traced requests whose
\* finished event has not fired.
InFlightCalls == {c \in CallIds : traced[c].pc \in {"awaiting", "settled"}}
InFlightRequests ==
  {r \in Started : interceptor = "observability" /\ req[r].phase # "finished"}

\* C19: the registry never holds more contexts than there are traced
\* operations in flight, and holds none when none is in flight.
C19_RegistryBoundedByInFlight ==
  Cardinality(DOMAIN storage) <= Cardinality(InFlightCalls) + Cardinality(InFlightRequests)

\* C15: the active_connections field getObservabilityStatus returns equals
\* the active-connection gauge at the time of the call, and the call
\* changes no state.
C15_StatusReportsLiveGauge ==
  \A k \in Invoked(calls) :
    k.op = "getObservabilityStatus" =>
      k.value.active_connections = metrics.activeConnections

\* The step is healthObservability handling request r.
HealthHandles(r) ==
  /\ ~MapHas(req[r].resHeaders, "x-health-check")
  /\ MapHas(req'[r].resHeaders, "x-health-check")

\* C17: healthObservability handling a request only adds the response
\* header x-health-check: it creates no trace context, calls no registry or
\* Metrics Recorder operation, logs nothing, and leaves the registry, the
\* gauge and the metrics as they were.
C17_HealthOnlyTagsHeaders ==
  [][\A r \in Started :
       HealthHandles(r) =>
         /\ req' = [req EXCEPT ![r] =
                      [@ EXCEPT !.resHeaders = MapSet(@, "x-health-check", "true")]]
         /\ storage' = storage
         /\ metrics' = metrics
         /\ calls' = <<>>
         /\ emitted' = <<>>
         /\ reqIdSeq' = reqIdSeq]_vars

\* A health request has been tagged while its trace context from
\* observabilityMiddleware and its gauge increment are still in place.
C17_Witness ==
  \E r \in Started :
    /\ MapHas(req[r].resHeaders, "x-health-check")
    /\ req[r].phase = "inflight"
    /\ calls = <<>>
    /\ interceptor = "observability"
    /\ MapHas(storage, req[r].correlationId)
    /\ metrics.activeConnections = 1

\* C21: any two GET /health requests BackendClient sends without a
\* clearHealthCheckCache in between are at least HEALTH_CHECK_INTERVAL
\* apart, however healthCheck calls interleave, a call starting while an
\* earlier call's fetch is pending included.
C21_HealthCheckThrottled ==
  \A i, j \in DOMAIN issued :
    i < j => issued[j] - issued[i] >= HEALTH_CHECK_INTERVAL

ClientMethods == {"healthCheck", "analyzeEmotionalState"}
\* The request ended in a raised failure: fetch rejected, or the body could
\* not be parsed or read.
RaisedFailure(fetch) ==
  \/ fetch.kind = "rejected"
  \/ fetch.kind = "response" /\ fetch.body.json = "invalid"
  \/ fetch.kind = "response" /\ fetch.body.json = "null" /\ fetch.ok

\* C22: whatever the fetch does, healthCheck and analyzeEmotionalState
\* resolve to a result; success is true only if the response was ok; a
\* raised failure gives success = false with status "offline" from
\* healthCheck, and every failure of analyzeEmotionalState gives success =
\* false, confidence 0.5 and recommendation "fibonacci".
C22_ClientNeverRejects ==
  [][\A k \in Invoked(calls') :
       k.op \in ClientMethods =>
         /\ ~k.raised
         /\ k.value.success \in BOOLEAN
         /\ k.fetch.kind = "none" => k.value = healthCheckCache
         /\ k.fetch.kind # "none" =>
              /\ k.value.success => (k.fetch.kind = "response" /\ k.fetch.ok)
              /\ RaisedFailure(k.fetch) => ~k.value.success
              /\ (k.op = "healthCheck" /\ RaisedFailure(k.fetch)) =>
                   k.value.status = "offline"
              /\ (k.op = "healthCheck" /\ ~RaisedFailure(k.fetch)) =>
                   k.value.success = k.fetch.ok
              /\ (k.op = "analyzeEmotionalState" /\ ~k.value.success) =>
                   /\ k.value.confidence = "0.5"
                   /\ k.value.recommendation = "fibonacci"
              /\ (k.op = "analyzeEmotionalState" /\ ~RaisedFailure(k.fetch)) =>
                   k.value.success = k.fetch.ok]_vars

\* An analyzeEmotionalState call whose fetch was aborted by the timeout has
\* resolved with the fallback, after a healthCheck cached an offline result.
C22_Witness ==
  \E k \in Invoked(calls) :
    /\ k.op = "analyzeEmotionalState"
    /\ k.fetch.kind = "rejected"
    /\ k.fetch.error = JsAbortError
    /\ ~k.raised
    /\ ~k.value.success
    /\ clientNow >= REQUEST_TIMEOUT
    /\ healthCheckCache # JsNull
    /\ healthCheckCache.status = "offline"

====
